---- MODULE Spec2Model ----
(***************************************************************************)
(* Model of ArmRobot.py: the part registry (duplicate_object), the         *)
(* transform primitives, the keyframe recorder and the choreography        *)
(* sequencer (importArmRobot, gen_centerpiece).                            *)
(*                                                                         *)
(* Units.  Lengths and scales are integers in 1e-6 scene units, angles     *)
(* given in degrees are integers in 1e-6 degree, angles held by an object  *)
(* (rotation_euler) are integers in 1e-6 radian.  The host keeps these     *)
(* values as floats of finite precision; the model keeps them on a fixed   *)
(* grid and rounds where the code converts (math.radians).                 *)
(***************************************************************************)
EXTENDS Integers, Sequences, FiniteSets, TLC

VARIABLES
    objects,       \* bpy.data.objects: name -> object record
    meshes,        \* bpy.data.meshes: data-block id -> geometry it holds
    collections,   \* bpy.data.collections: set of collection names
    selected,      \* names of the selected objects
    keyframes,     \* keyframe insertions so far, in order
    err,           \* "none", or the exception that ended the run
    globals,       \* module globals plate, rotor, ...: variable -> name or None
    RobotArmObj,   \* local of gen_centerpiece: the list importArmRobot returned
    result,        \* what the call gen_centerpiece(context) of main evaluated
                   \* to; "pending" until it returns
    pc,            \* index of the next statement of gen_centerpiece
    ip,            \* index of the current part block of importArmRobot
    step,          \* the next statement of that block ("duplicate", "pose"),
                   \* or of the current transformasiRidho* ("translate",
                   \* "rotate")
    calls          \* direct calls of the operations so far: arguments, scene
                   \* before the call, value returned

vars == <<objects, meshes, collections, selected, keyframes, err, globals,
          RobotArmObj, result, pc, ip, step, calls>>

None == "None"

Zero3 == <<0, 0, 0>>
One3 == <<1000000, 1000000, 1000000>>

Add3(u, v) == <<u[1] + v[1], u[2] + v[2], u[3] + v[3]>>

\* Index of an axis letter in a 3-vector.
AxisIndex(axis) == CASE axis = "X" -> 1 [] axis = "Y" -> 2 [] axis = "Z" -> 3

\* math.radians: 1e-6 degree -> 1e-6 radian, rounded to the nearest grid
\* point.  pi/180 = 0.01745329...; the product d * 1.745329 (in 1e-8 radian)
\* is taken digit group by digit group so that it fits 32 bits.
Radians(d) ==
    LET q == d \div 1000000
        r1 == (d % 1000000) \div 1000
        r0 == d % 1000
    IN  (q * 1745329 + (r1 * 1745329) \div 1000 + (r0 * 1745329) \div 1000000 + 50)
            \div 100

(***************************************************************************)
(* The scene as one value, so that calls compose.                          *)
(***************************************************************************)
World ==
    [objects |-> objects, meshes |-> meshes, collections |-> collections,
     selected |-> selected, keyframes |-> keyframes, err |-> err]

Raise(w, e) == [w EXCEPT !.err = e]

\* bpy.data.objects.new(name, data): a fresh object at the identity pose,
\* in no collection.
NewObject(data) ==
    [data |-> data,
     location |-> [at |-> Zero3, swing |-> Zero3],
     rotation_euler |-> Zero3,
     scale |-> One3,
     users_collection |-> <<>>]

Suffixes == <<"", ".001", ".002", ".003", ".004">>

\* The host keeps the names of a kind of data block unique: a taken name
\* gets a numeric suffix.
UniqueName(taken, name) ==
    LET free == {i \in DOMAIN Suffixes : (name \o Suffixes[i]) \notin taken}
        i0 == CHOOSE i \in free : \A j \in free : i <= j
    IN  name \o Suffixes[i0]

\* original_object.data.copy(): a new data block holding the same geometry.
DataCopy_shared(ms, d) == [meshes |-> ms, id |-> d]
DataCopy(ms, d) ==
    LET id == Cardinality(DOMAIN ms) + 1
    IN  [meshes |-> (id :> ms[d]) @@ ms, id |-> id]

\* The pose a new object is created with.
NewObjectPose_template(original, data) ==
    [original EXCEPT !.data = data, !.users_collection = <<>>]
NewObjectPose(original, data) == NewObject(data)

\* bpy.data.collections.get(collection_name) found nothing.
CollectionMissing_always(cols, name) == TRUE
CollectionMissing(cols, name) == name \notin cols

\* collection_name is truthy: neither None nor the empty string.
Truthy(s) == s # None /\ s # ""

(***************************************************************************)
(* duplicate_object.  The result is the new scene and the value returned.  *)
(***************************************************************************)
duplicate_object(w, original_name, new_name, collection_name) ==
    IF original_name \notin DOMAIN w.objects
    THEN [w |-> w, ret |-> None]
    ELSE
        LET original_object == w.objects[original_name]
            copy == DataCopy(w.meshes, original_object.data)
            name == UniqueName(DOMAIN w.objects, new_name)
            new_object == NewObjectPose(original_object, copy.id)
            w1 == [w EXCEPT !.meshes = copy.meshes,
                            !.objects = (name :> new_object) @@ w.objects]
            missing == CollectionMissing(w.collections, collection_name)
            collection == IF missing
                          THEN UniqueName(w.collections, collection_name)
                          ELSE collection_name
        IN  IF Truthy(collection_name)
            THEN [w |-> [w1 EXCEPT
                           !.collections = IF missing THEN @ \cup {collection} ELSE @,
                           !.objects[name].users_collection = <<collection>>],
                  ret |-> name]
            ELSE IF original_object.users_collection = <<>>
                 THEN [w |-> Raise(w1, "IndexError"), ret |-> None]
                 ELSE [w |-> [w1 EXCEPT !.objects[name].users_collection =
                                            <<original_object.users_collection[1]>>],
                       ret |-> name]

(***************************************************************************)
(* Transform primitives.  Each takes the scene and returns the scene; a    *)
(* scene in which an exception is pending is returned as it is.            *)
(***************************************************************************)
RotateAssign(old, delta) == delta
RotateAccumulate(old, delta) == old + delta

rotate_object(w, obj, x_degrees, y_degrees, z_degrees) ==
    IF w.err # "none" \/ obj = None THEN w
    ELSE [w EXCEPT !.objects[obj].rotation_euler =
             <<RotateAccumulate(@[1], Radians(x_degrees)),
               RotateAccumulate(@[2], Radians(y_degrees)),
               RotateAccumulate(@[3], Radians(z_degrees))>>]

set_location(w, obj, x, y, z) ==
    IF w.err # "none" \/ obj = None THEN w
    ELSE [w EXCEPT !.objects[obj].location = [at |-> <<x, y, z>>, swing |-> Zero3]]

resize_object(w, obj, scale_x, scale_y, scale_z) ==
    IF w.err # "none" \/ obj = None THEN w
    ELSE [w EXCEPT !.objects[obj].scale = <<scale_x, scale_y, scale_z>>]

\* bpy.ops.transform.translate on the selection, global orientation.
TransformTranslate(w, value) ==
    LET moved == [n \in w.selected |->
                    [w.objects[n] EXCEPT !.location.at = Add3(@, value)]]
    IN  [w EXCEPT !.objects = moved @@ w.objects]

\* bpy.ops.transform.rotate on the selection about a global axis: the angle
\* is added to each selected object's rotation about that axis, and when
\* several objects are selected they swing together about the shared pivot.
TransformRotate(w, value, axis) ==
    LET k == AxisIndex(axis)
        group == Cardinality(w.selected) > 1
        turned == [n \in w.selected |->
                     [w.objects[n] EXCEPT
                        !.rotation_euler[k] = @ + value,
                        !.location.swing[k] = IF group THEN @ + value ELSE @]]
    IN  [w EXCEPT !.objects = turned @@ w.objects]

translate_object(w, obj, tx, ty, tz) ==
    IF w.err # "none" THEN w
    ELSE
        LET w1 == [w EXCEPT !.selected = {}]
        IN  IF obj = None THEN Raise(w1, "AttributeError")
            ELSE IF obj \notin DOMAIN w1.objects THEN Raise(w1, "KeyError")
            ELSE TransformTranslate([w1 EXCEPT !.selected = {obj}], <<tx, ty, tz>>)

\* The loop of rotateObjectOnSelect: select the objects of the list in order.
RECURSIVE SelectEach(_, _)
SelectEach(w, objList) ==
    IF objList = <<>> \/ w.err # "none" THEN w
    ELSE LET i == Head(objList)
         IN  IF i = None THEN Raise(w, "AttributeError")
             ELSE IF i \notin DOMAIN w.objects THEN Raise(w, "KeyError")
             ELSE SelectEach([w EXCEPT !.selected = @ \cup {i}], Tail(objList))

rotateObjectOnSelect(w, objList, radValue, axis) ==
    IF w.err # "none" THEN w
    ELSE
        LET w1 == SelectEach([w EXCEPT !.selected = {}], objList)
        IN  IF w1.err # "none" THEN w1 ELSE TransformRotate(w1, radValue, axis)

rotate_object_on_x_axis(w, obj_name, rotation_value) ==
    IF w.err # "none" \/ obj_name \notin DOMAIN w.objects THEN w
    ELSE TransformRotate([w EXCEPT !.selected = {obj_name}], rotation_value, "X")

(***************************************************************************)
(* Keyframe recorder.                                                      *)
(***************************************************************************)
ChannelValue(o, transformation) ==
    IF transformation = "location" THEN o.location ELSE o.rotation_euler

\* obj.keyframe_insert(transformation, frame=frameTime)
keyframe_insert(w, obj, transformation, frameTime) ==
    [w EXCEPT !.keyframes = Append(@,
        [obj |-> obj, data_path |-> transformation, frame |-> frameTime,
         value |-> ChannelValue(w.objects[obj], transformation)])]

\* for i in objList: i.keyframe_insert(transformation, frame=frameTime)
RECURSIVE InsertEach(_, _, _, _)
InsertEach(w, objList, transformation, frameTime) ==
    IF objList = <<>> \/ w.err # "none" THEN w
    ELSE LET i == Head(objList)
         IN  IF i = None THEN Raise(w, "AttributeError")
             ELSE InsertEach(keyframe_insert(w, i, transformation, frameTime),
                             Tail(objList), transformation, frameTime)

insertKeyFrameForObjectTrans_rest(w, objList, transformation, frameTime) ==
    InsertEach(w, IF objList = <<>> THEN objList ELSE Tail(objList),
               transformation, frameTime)
insertKeyFrameForObjectTrans(w, objList, transformation, frameTime) ==
    InsertEach(w, objList, transformation, frameTime)

(***************************************************************************)
(* importArmRobot: one block per part, in source order.                    *)
(***************************************************************************)
Templates == <<"ANGLE", "CUBE", "GRIPPER", "PLATE", "ROTATIONAXIS", "ROTOR", "SHAFT">>

TemplateSet == {Templates[i] : i \in DOMAIN Templates}

PartBlocks == <<
    [var |-> "plate", original |-> "PLATE", new |-> "plate", collection |-> "Collection", guard |-> "plate",
     loc |-> <<-1902490, -935105, 490659>>, deg |-> <<0, 0, 0>>, size |-> <<29202, 29202, 29202>>],
    [var |-> "rotor", original |-> "ROTOR", new |-> "rotor", collection |-> "Collection", guard |-> "rotor",
     loc |-> <<-67378, 1276270, 1143760>>, deg |-> <<0, 0, 45000000>>, size |-> <<-26674, -26674, -26674>>],
    [var |-> "rotationaxis", original |-> "ROTATIONAXIS", new |-> "rotationaxis", collection |-> "Collection", guard |-> "rotationaxis",
     loc |-> <<-82457, 1261770, 1038930>>, deg |-> <<0, 0, 0>>, size |-> <<-79003, -94633, 28991>>],
    [var |-> "cube", original |-> "CUBE", new |-> "cube", collection |-> "Collection", guard |-> "cube",
     loc |-> <<76949, 940057, 1696950>>, deg |-> <<180000000, 0, 0>>, size |-> <<-20435, -44361, 43016>>],
    [var |-> "angle", original |-> "ANGLE", new |-> "angle", collection |-> "Collection", guard |-> "angle",
     loc |-> <<-358202, 926703, 1912780>>, deg |-> <<223887000, 0, 180000000>>, size |-> <<22659, 22659, 22659>>],
    [var |-> "shaft", original |-> "SHAFT", new |-> "shaft", collection |-> "Collection", guard |-> "shaft",
     loc |-> <<-92524, 446057, 2115010>>, deg |-> <<35835200, 40000000, 313850000>>, size |-> <<23750, 23750, 23750>>],
    [var |-> "angle1", original |-> "angle", new |-> "angle1", collection |-> "Collection", guard |-> "angle1",
     loc |-> <<-358202, -29123, 2425680>>, deg |-> <<40158000, 0, 180000000>>, size |-> <<22659, 22659, 22659>>],
    [var |-> "cube1", original |-> "cube", new |-> "cube1", collection |-> "Collection", guard |-> "cube1",
     loc |-> <<76949, -450501, 2669750>>, deg |-> <<-137333000, 0, 0>>, size |-> <<-20394, -43908, -20394>>],
    [var |-> "shaft001", original |-> "shaft", new |-> "shaft001", collection |-> "Collection", guard |-> "shaft001",
     loc |-> <<-92524, 164382, 3423650>>, deg |-> <<-33431000, -33431000, 323400000>>, size |-> <<23750, 23750, 23750>>],
    [var |-> "cube2", original |-> "cube1", new |-> "cube2", collection |-> "Collection", guard |-> "cube2",
     loc |-> <<76949, 550098, 3634510>>, deg |-> <<-137333000, 0, 0>>, size |-> <<-20394, -43908, -20394>>],
    [var |-> "angle2", original |-> "angle1", new |-> "angle2", collection |-> "Collection", guard |-> "angle2",
     loc |-> <<-358202, 1057520, 3473140>>, deg |-> <<40157600, 0, -180000000>>, size |-> <<22659, 22659, 22659>>],
    [var |-> "rotor1", original |-> "rotor", new |-> "rotor1", collection |-> "Collection", guard |-> "rotor1",
     loc |-> <<-72524, 1566430, 3173450>>, deg |-> <<-145664000, -29176800, 35515500>>, size |-> <<-19042, -19042, -19042>>],
    [var |-> "gripper", original |-> "GRIPPER", new |-> "gripper", collection |-> "Collection", guard |-> "gripper",
     loc |-> <<-355968, 1533670, 3228700>>, deg |-> <<214081000, 0, 0>>, size |-> <<21216, 21216, 21216>>],
    [var |-> "gripper1", original |-> "gripper", new |-> "gripper1", collection |-> "Collection", guard |-> "gripper1",
     loc |-> <<215339, 1593030, 3160520>>, deg |-> <<-38931200, 0, 180000000>>, size |-> <<21216, 21216, 21216>>],
    [var |-> "thruster", original |-> "rotor1", new |-> "thruster", collection |-> "Collection", guard |-> "thruster",
     loc |-> <<1764990, -977508, -2476>>, deg |-> <<176994000, 2971600, 44631500>>, size |-> <<-23033, -23033, -23033>>],
    [var |-> "thruster1", original |-> "thruster", new |-> "thruster1", collection |-> "Collection", guard |-> "thruster1",
     loc |-> <<-1883320, -968107, -1170>>, deg |-> <<176994000, 2971600, 44631500>>, size |-> <<-23033, -23033, -23417>>],
    [var |-> "thruster2", original |-> "thruster1", new |-> "thruster2", collection |-> "Collection", guard |-> "thruster2",
     loc |-> <<-1865810, 2664860, 6509>>, deg |-> <<176994000, 2971600, 44631500>>, size |-> <<-23033, -23033, -23417>>],
    [var |-> "thruster3", original |-> "thruster1", new |-> "thruster3", collection |-> "Collection", guard |-> "thruster1",
     loc |-> <<1764990, 2648500, -11162>>, deg |-> <<179135000, 856294, 44703000>>, size |-> <<-23033, -23033, -23033>>]
>>

armRobot_object_list ==
    <<"plate", "rotor", "rotor1", "rotationaxis", "cube", "angle", "shaft",
      "angle1", "cube1", "shaft001", "cube2", "angle2", "gripper", "gripper1",
      "thruster", "thruster1", "thruster2", "thruster3">>

Range(list) == {list[i] : i \in DOMAIN list}

PartVars == Range(armRobot_object_list)

\* The values of the listed globals, in list order.
Refs(g, list) == [i \in DOMAIN list |-> g[list[i]]]

\* First statement of a block: duplicate and bind the global.
ImportDuplicate(w, g, b) ==
    LET r == duplicate_object(w, b.original, b.new, b.collection)
    IN  [w |-> r.w, g |-> [g EXCEPT ![b.var] = r.ret]]

\* Rest of a block: pose the part when the guard variable holds an object.
ImportPose(w, g, b) ==
    LET o == g[b.var]
    IN  IF g[b.guard] = None THEN w
        ELSE resize_object(
                 rotate_object(
                     set_location(w, o, b.loc[1], b.loc[2], b.loc[3]),
                     o, b.deg[1], b.deg[2], b.deg[3]),
                 o, b.size[1], b.size[2], b.size[3])

\* bpy.data.objects[name] raises KeyError when no object has the name.
LookupRaises_lenient(objs, name) == FALSE
LookupRaises(objs, name) == name \notin DOMAIN objs

RECURSIVE SelectNamed(_, _)
SelectNamed(w, names) ==
    IF names = <<>> \/ w.err # "none" THEN w
    ELSE IF LookupRaises(w.objects, Head(names)) THEN Raise(w, "KeyError")
    ELSE SelectNamed([w EXCEPT !.selected = @ \cup ({Head(names)} \cap DOMAIN w.objects)],
                     Tail(names))

\* bpy.ops.object.delete(): the selected objects leave bpy.data.objects.
ObjectDelete(w) ==
    [w EXCEPT !.objects = [n \in (DOMAIN w.objects) \ w.selected |-> w.objects[n]],
              !.selected = {}]

\* Lines 446-454: select the seven templates by name and delete them.
DeleteTemplates(w) ==
    LET w1 == SelectNamed([w EXCEPT !.selected = {}], Templates)
    IN  IF w1.err # "none" THEN w1 ELSE ObjectDelete(w1)

(***************************************************************************)
(* Phase transforms.                                                       *)
(***************************************************************************)
translateList == armRobot_object_list

rotationList_whole ==
    <<"plate", "rotor", "rotor1", "rotationaxis", "cube", "angle", "shaft", "angle1",
      "cube1", "shaft001", "cube2", "angle2", "gripper", "gripper1">>
rotationList ==
    <<"rotor", "rotor1", "rotationaxis", "cube", "angle", "shaft", "angle1",
      "cube1", "shaft001", "cube2", "angle2", "gripper", "gripper1">>

rotateListHarish ==
    <<"angle1", "cube1", "shaft001", "cube2", "angle2", "gripper", "gripper1">>

rotateListDhea ==
    <<"angle", "shaft", "angle1", "cube1", "shaft001", "cube2", "angle2",
      "gripper", "gripper1", "thruster", "thruster1", "thruster2", "thruster3">>

RECURSIVE TranslateEach(_, _, _)
TranslateEach(w, list, t) ==
    IF list = <<>> \/ w.err # "none" THEN w
    ELSE TranslateEach(translate_object(w, Head(list), t[1], t[2], t[3]), Tail(list), t)

\* for obj in rotateList: rotate_object_on_x_axis(obj.name, value)
RECURSIVE FlexEach(_, _, _)
FlexEach(w, list, value) ==
    IF list = <<>> \/ w.err # "none" THEN w
    ELSE IF Head(list) = None THEN Raise(w, "AttributeError")
    ELSE FlexEach(rotate_object_on_x_axis(w, Head(list), value), Tail(list), value)

FlexAngle == 268581

\* Each transformasiRidho* is two statements: the loop of translate_object
\* over translateList, then one rotateObjectOnSelect of rotationList.
transformasiRidho_translate(w, g) ==
    TranslateEach(w, Refs(g, translateList), <<15000000, 0, 0>>)
transformasiRidho_rotate(w, g) ==
    rotateObjectOnSelect(w, Refs(g, rotationList), 360000000, "Z")
transformasiRidho(w, g) ==
    transformasiRidho_rotate(transformasiRidho_translate(w, g), g)

transformasiRidho2_translate(w, g) ==
    TranslateEach(w, Refs(g, translateList), <<0, 10000000, 0>>)
transformasiRidho2_rotate(w, g) ==
    rotateObjectOnSelect(w, Refs(g, rotationList), 11000000, "Z")
transformasiRidho2(w, g) ==
    transformasiRidho2_rotate(transformasiRidho2_translate(w, g), g)

transformasiRidho3_translate(w, g) ==
    TranslateEach(w, Refs(g, translateList), <<-15000000, 0, 0>>)
transformasiRidho3_rotate(w, g) ==
    rotateObjectOnSelect(w, Refs(g, rotationList), -360000000, "Z")
transformasiRidho3(w, g) ==
    transformasiRidho3_rotate(transformasiRidho3_translate(w, g), g)

transformasiRidho4_translate(w, g) ==
    TranslateEach(w, Refs(g, translateList), <<0, -15000000, 0>>)
transformasiRidho4_rotate(w, g) ==
    rotateObjectOnSelect(w, Refs(g, rotationList), -11000000, "Z")
transformasiRidho4(w, g) ==
    transformasiRidho4_rotate(transformasiRidho4_translate(w, g), g)

transformasiHarish(w, g) == FlexEach(w, Refs(g, rotateListHarish), -FlexAngle)
transformasiHarish2(w, g) == FlexEach(w, Refs(g, rotateListHarish), FlexAngle)
transformasiHarish3(w, g) == FlexEach(w, Refs(g, rotateListHarish), -FlexAngle)

transformasiDhea(w, g) == FlexEach(w, Refs(g, rotateListDhea), -FlexAngle)
transformasiDhea2(w, g) == FlexEach(w, Refs(g, rotateListDhea), FlexAngle)
transformasiDhea3(w, g) == FlexEach(w, Refs(g, rotateListDhea), -FlexAngle)

(***************************************************************************)
(* gen_centerpiece, statement by statement.                                *)
(***************************************************************************)
Stmt(op) == [op |-> op, data_path |-> "", frame |-> 0]
Insert(transformation, frameTime) ==
    [op |-> "insertKeyFrameForObjectTrans", data_path |-> transformation,
     frame |-> frameTime]

gen_centerpiece_early == <<
    Stmt("importArmRobot"),
    Insert("rotation_euler", 1), Insert("location", 1),
    Stmt("transformasiRidho"), Stmt("transformasiDhea"),
    Insert("rotation_euler", 100), Stmt("transformasiHarish"), Insert("location", 100),
    Stmt("transformasiRidho2"), Stmt("transformasiHarish2"), Stmt("transformasiDhea2"),
    Insert("rotation_euler", 200), Insert("location", 200),
    Stmt("transformasiRidho3"), Stmt("transformasiHarish3"), Stmt("transformasiDhea3"),
    Insert("rotation_euler", 300), Insert("location", 300),
    Stmt("transformasiRidho4"), Stmt("transformasiDhea"), Stmt("transformasiHarish"),
    Insert("rotation_euler", 400), Insert("location", 400) >>

gen_centerpiece_repeat == <<
    Stmt("importArmRobot"),
    Insert("rotation_euler", 1), Insert("location", 1),
    Stmt("transformasiRidho"), Stmt("transformasiDhea"), Stmt("transformasiHarish"),
    Insert("rotation_euler", 100), Insert("location", 100),
    Stmt("transformasiRidho2"), Stmt("transformasiHarish2"), Stmt("transformasiDhea2"),
    Insert("rotation_euler", 200), Insert("location", 200),
    Stmt("transformasiRidho3"), Stmt("transformasiHarish3"), Stmt("transformasiDhea3"),
    Insert("rotation_euler", 200), Insert("location", 200),
    Stmt("transformasiRidho4"), Stmt("transformasiDhea"), Stmt("transformasiHarish"),
    Insert("rotation_euler", 400), Insert("location", 400) >>

gen_centerpiece_flex_first == <<
    Stmt("importArmRobot"),
    Insert("rotation_euler", 1), Insert("location", 1),
    Stmt("transformasiRidho"), Stmt("transformasiDhea"), Stmt("transformasiHarish"),
    Insert("rotation_euler", 100), Insert("location", 100),
    Stmt("transformasiHarish2"), Stmt("transformasiRidho2"), Stmt("transformasiDhea2"),
    Insert("rotation_euler", 200), Insert("location", 200),
    Stmt("transformasiRidho3"), Stmt("transformasiHarish3"), Stmt("transformasiDhea3"),
    Insert("rotation_euler", 300), Insert("location", 300),
    Stmt("transformasiRidho4"), Stmt("transformasiDhea"), Stmt("transformasiHarish"),
    Insert("rotation_euler", 400), Insert("location", 400) >>

gen_centerpiece == <<
    Stmt("importArmRobot"),
    Insert("rotation_euler", 1), Insert("location", 1),
    Stmt("transformasiRidho"), Stmt("transformasiDhea"), Stmt("transformasiHarish"),
    Insert("rotation_euler", 100), Insert("location", 100),
    Stmt("transformasiRidho2"), Stmt("transformasiHarish2"), Stmt("transformasiDhea2"),
    Insert("rotation_euler", 200), Insert("location", 200),
    Stmt("transformasiRidho3"), Stmt("transformasiHarish3"), Stmt("transformasiDhea3"),
    Insert("rotation_euler", 300), Insert("location", 300),
    Stmt("transformasiRidho4"), Stmt("transformasiDhea"), Stmt("transformasiHarish"),
    Insert("rotation_euler", 400), Insert("location", 400) >>

\* The statement about to run, or a placeholder once the body is finished.
Current ==
    IF pc \in DOMAIN gen_centerpiece THEN gen_centerpiece[pc] ELSE Stmt("return")

Running == err = "none" /\ pc \in DOMAIN gen_centerpiece

Commit(w) ==
    /\ objects' = w.objects
    /\ meshes' = w.meshes
    /\ collections' = w.collections
    /\ selected' = w.selected
    /\ keyframes' = w.keyframes
    /\ err' = w.err

\* A statement that raised leaves pc where it is; the run is over.
Advance(w) == pc' = IF w.err = "none" THEN pc + 1 ELSE pc

(***************************************************************************)
(* The scene importArmRobot starts from: the STL imports that succeeded    *)
(* left one template each, at the identity pose, in the scene collection.  *)
(***************************************************************************)
SceneCollection == "Scene Collection"

\* Position of a template in Templates.
TemplateIndex(t) == CHOOSE i \in DOMAIN Templates : Templates[i] = t

ImportedScene(present) ==
    LET ids == {TemplateIndex(t) : t \in present}
        rank(t) == Cardinality({i \in ids : i <= TemplateIndex(t)})
    IN  [objects |-> [t \in present |->
                        [NewObject(rank(t)) EXCEPT !.users_collection = <<SceneCollection>>]],
         meshes |-> [i \in 1..Cardinality(present) |->
                        CHOOSE t \in present : rank(t) = i],
         collections |-> {},
         selected |-> {},
         keyframes |-> <<>>,
         err |-> "none"]

Init ==
    /\ \E present \in SUBSET TemplateSet :
          LET w == ImportedScene(present)
          IN  /\ objects = w.objects
              /\ meshes = w.meshes
    /\ collections = {}
    /\ selected = {}
    /\ keyframes = <<>>
    /\ err = "none"
    \* The globals are unbound until their block assigns them; no statement
    \* reads one before that, so the placeholder None is never observed.
    /\ globals = [v \in PartVars |-> None]
    /\ RobotArmObj = <<>>
    /\ result = "pending"
    /\ pc = 1
    /\ ip = 1
    /\ step = "duplicate"
    /\ calls = <<>>

\* importArmRobot, `x = duplicate_object(...)` of the block at ip.
ImportPartDuplicate ==
    /\ Running
    /\ Current.op = "importArmRobot"
    /\ ip \in DOMAIN PartBlocks
    /\ step = "duplicate"
    /\ LET r == ImportDuplicate(World, globals, PartBlocks[ip])
       IN  /\ Commit(r.w)
           /\ globals' = r.g
    /\ step' = "pose"
    /\ UNCHANGED <<RobotArmObj, result, pc, ip, calls>>

\* importArmRobot, `if x: set_location; rotate_object; resize_object`.
ImportPartPose ==
    /\ Running
    /\ Current.op = "importArmRobot"
    /\ ip \in DOMAIN PartBlocks
    /\ step = "pose"
    /\ Commit(ImportPose(World, globals, PartBlocks[ip]))
    /\ step' = "duplicate"
    /\ ip' = ip + 1
    /\ UNCHANGED <<globals, RobotArmObj, result, pc, calls>>

\* The end of importArmRobot (lines 446-458): delete the templates, return
\* the list of the eighteen globals.
DeleteTemplatesAndReturn ==
    /\ Running
    /\ Current.op = "importArmRobot"
    /\ ip = Len(PartBlocks) + 1
    /\ LET w == DeleteTemplates(World)
       IN  /\ Commit(w)
           /\ Advance(w)
           /\ RobotArmObj' = IF w.err = "none"
                             THEN Refs(globals, armRobot_object_list)
                             ELSE RobotArmObj
    /\ UNCHANGED <<globals, result, ip, step, calls>>

InsertKeyFrames ==
    /\ Running
    /\ Current.op = "insertKeyFrameForObjectTrans"
    /\ LET w == insertKeyFrameForObjectTrans(World, RobotArmObj,
                                             Current.data_path, Current.frame)
       IN  Commit(w) /\ Advance(w)
    /\ UNCHANGED <<globals, RobotArmObj, result, ip, step, calls>>

IsRidho(op) ==
    op \in {"transformasiRidho", "transformasiRidho2",
            "transformasiRidho3", "transformasiRidho4"}

\* transformasiRidho*, `for i in translateList: translate_object(i, ...)`.
TransformasiRidhoTranslate ==
    /\ Running
    /\ IsRidho(Current.op)
    /\ step # "rotate"
    /\ LET w == CASE Current.op = "transformasiRidho" ->
                        transformasiRidho_translate(World, globals)
                  [] Current.op = "transformasiRidho2" ->
                        transformasiRidho2_translate(World, globals)
                  [] Current.op = "transformasiRidho3" ->
                        transformasiRidho3_translate(World, globals)
                  [] Current.op = "transformasiRidho4" ->
                        transformasiRidho4_translate(World, globals)
       IN  Commit(w)
    /\ step' = "rotate"
    /\ UNCHANGED <<globals, RobotArmObj, result, pc, ip, calls>>

\* transformasiRidho*, `rotateObjectOnSelect(rotationList, ..., 'Z')`, the
\* last statement of the function.
TransformasiRidhoRotate ==
    /\ Running
    /\ IsRidho(Current.op)
    /\ step = "rotate"
    /\ LET w == CASE Current.op = "transformasiRidho" ->
                        transformasiRidho_rotate(World, globals)
                  [] Current.op = "transformasiRidho2" ->
                        transformasiRidho2_rotate(World, globals)
                  [] Current.op = "transformasiRidho3" ->
                        transformasiRidho3_rotate(World, globals)
                  [] Current.op = "transformasiRidho4" ->
                        transformasiRidho4_rotate(World, globals)
       IN  Commit(w) /\ Advance(w)
    /\ step' = "translate"
    /\ UNCHANGED <<globals, RobotArmObj, result, ip, calls>>

TransformasiDhea ==
    /\ Running
    /\ Current.op \in {"transformasiDhea", "transformasiDhea2", "transformasiDhea3"}
    /\ LET w == CASE Current.op = "transformasiDhea" -> transformasiDhea(World, globals)
                  [] Current.op = "transformasiDhea2" -> transformasiDhea2(World, globals)
                  [] Current.op = "transformasiDhea3" -> transformasiDhea3(World, globals)
       IN  Commit(w) /\ Advance(w)
    /\ UNCHANGED <<globals, RobotArmObj, result, ip, step, calls>>

TransformasiHarish ==
    /\ Running
    /\ Current.op \in {"transformasiHarish", "transformasiHarish2", "transformasiHarish3"}
    /\ LET w == CASE Current.op = "transformasiHarish" -> transformasiHarish(World, globals)
                  [] Current.op = "transformasiHarish2" -> transformasiHarish2(World, globals)
                  [] Current.op = "transformasiHarish3" -> transformasiHarish3(World, globals)
       IN  Commit(w) /\ Advance(w)
    /\ UNCHANGED <<globals, RobotArmObj, result, ip, step, calls>>

(***************************************************************************)
(* The rest of main: gen_centerpiece returns, then add_lights.             *)
(***************************************************************************)
\* pc past the last statement of gen_centerpiece: the body has run to its
\* end, then the call has returned to main, then main has run to its end.
AtEnd == Len(gen_centerpiece) + 1
InMain == Len(gen_centerpiece) + 2
Exited == Len(gen_centerpiece) + 3

\* bpy.ops.object.light_add(type="SUN", rotation=rotation): a new object
\* holding a light data block (0: a block in none of the meshes), at the
\* cursor, with the rotation given, linked to the scene collection; it
\* becomes the only selected object.  The three assignments that follow set
\* fields of the light data block.
add_lights_selection(w) ==
    LET turned == [n \in w.selected |->
                     [w.objects[n] EXCEPT !.rotation_euler =
                         <<Radians(60000000), 0, Radians(180000000)>>]]
    IN  [w EXCEPT !.objects = turned @@ w.objects]
add_lights(w) ==
    LET name == UniqueName(DOMAIN w.objects, "Sun")
        sun == [NewObject(0) EXCEPT
                  !.rotation_euler = <<Radians(60000000), 0, Radians(180000000)>>,
                  !.users_collection = <<SceneCollection>>]
    IN  [w EXCEPT !.objects = (name :> sun) @@ w.objects,
                  !.selected = {name}]

\* gen_centerpiece has no return statement: the call evaluates to None.
GenCenterpieceReturn ==
    /\ err = "none"
    /\ pc = AtEnd
    /\ result' = None
    /\ pc' = InMain
    /\ UNCHANGED <<objects, meshes, collections, selected, keyframes, err,
                   globals, RobotArmObj, ip, step, calls>>

\* main, `add_lights()`.
AddLights ==
    /\ err = "none"
    /\ pc = InMain
    /\ Commit(add_lights(World))
    /\ pc' = Exited
    /\ UNCHANGED <<globals, RobotArmObj, result, ip, step, calls>>

Next ==
    \/ ImportPartDuplicate
    \/ ImportPartPose
    \/ DeleteTemplatesAndReturn
    \/ InsertKeyFrames
    \/ TransformasiRidhoTranslate
    \/ TransformasiRidhoRotate
    \/ TransformasiDhea
    \/ TransformasiHarish
    \/ GenCenterpieceReturn
    \/ AddLights

Spec == Init /\ [][Next]_vars

(***************************************************************************)
(* Properties of the run of gen_centerpiece.                               *)
(***************************************************************************)
Finished == err = "none" /\ pc = AtEnd

\* The keyframe insertions of one object on one channel.
Recorded(n, transformation) ==
    {i \in DOMAIN keyframes :
        keyframes[i].obj = n /\ keyframes[i].data_path = transformation}

\* The values recorded for object n on a channel at a frame.
ValuesAt(n, transformation, frameTime) ==
    {keyframes[i].value : i \in {j \in Recorded(n, transformation) :
                                    keyframes[j].frame = frameTime}}

AllFlexParts ==
    {rotateListDhea[i] : i \in DOMAIN rotateListDhea}
        \cup {rotateListHarish[i] : i \in DOMAIN rotateListHarish}

\* C1: after the full run the translations of the four phases cancel, so
\* every part's location recorded at mark 400 equals the one recorded at
\* mark 1.
C1_TranslationLoopClosure ==
    Finished =>
        \A v \in PartVars :
            ValuesAt(globals[v], "location", 400) = ValuesAt(globals[v], "location", 1)

\* C2: after the full run the X-axis flex rotations applied to each part of
\* the flex lists cancel, so its X rotation recorded at mark 400 equals the
\* one recorded at mark 1.
C2_FlexLoopClosure ==
    Finished =>
        \A v \in AllFlexParts :
            {r[1] : r \in ValuesAt(globals[v], "rotation_euler", 400)}
                = {r[1] : r \in ValuesAt(globals[v], "rotation_euler", 1)}

\* The blocks of importArmRobot whose duplicate_object call has returned.
Duplicated ==
    {i \in DOMAIN PartBlocks : i < ip \/ (i = ip /\ step = "pose")}

SomeDuplicateFailed == \E i \in Duplicated : globals[PartBlocks[i].var] = None

\* C3: when a duplicate_object call of importArmRobot has returned None,
\* importArmRobot never returns to gen_centerpiece and no keyframe is
\* recorded for any part on any channel at any mark.
C3_MissingTemplateAbort ==
    SomeDuplicateFailed => keyframes = <<>> /\ pc = 1 /\ RobotArmObj = <<>>

\* C3 witness: a template was missing, a duplicate returned None, and the
\* run has ended in importArmRobot with an exception and no keyframe.
C3_Witness ==
    /\ SomeDuplicateFailed
    /\ \E i \in Duplicated : globals[PartBlocks[i].var] # None
    /\ err = "KeyError"
    /\ keyframes = <<>>

\* The scene at the end of importArmRobot when all templates are present,
\* and at the end of each phase, computed phase by phase.
RECURSIVE ImportAll(_, _, _)
ImportAll(w, g, i) ==
    IF i > Len(PartBlocks) THEN [w |-> DeleteTemplates(w), g |-> g]
    ELSE LET d == ImportDuplicate(w, g, PartBlocks[i])
             posed == ImportPose(d.w, d.g, PartBlocks[i])
         IN  IF posed.err # "none" THEN [w |-> posed, g |-> d.g]
             ELSE ImportAll(posed, d.g, i + 1)

Rest == ImportAll(ImportedScene(TemplateSet), [v \in PartVars |-> None], 1)

AfterPhase1 ==
    transformasiHarish(transformasiDhea(transformasiRidho(Rest.w, Rest.g), Rest.g), Rest.g)
AfterPhase2 ==
    transformasiDhea2(transformasiHarish2(transformasiRidho2(AfterPhase1, Rest.g), Rest.g), Rest.g)
AfterPhase3 ==
    transformasiDhea3(transformasiHarish3(transformasiRidho3(AfterPhase2, Rest.g), Rest.g), Rest.g)
AfterPhase4 ==
    transformasiHarish(transformasiDhea(transformasiRidho4(AfterPhase3, Rest.g), Rest.g), Rest.g)

SceneAtMark(m) ==
    CASE m = 1 -> Rest.w
      [] m = 100 -> AfterPhase1
      [] m = 200 -> AfterPhase2
      [] m = 300 -> AfterPhase3
      [] m = 400 -> AfterPhase4

\* C5: every keyframe at mark m, on either channel, holds the part's pose
\* after all transforms of the phases up to m and before any transform of a
\* later phase.
C5_TransformBeforeRecord ==
    \A i \in DOMAIN keyframes :
        LET k == keyframes[i]
        IN  /\ k.frame \in {1, 100, 200, 300, 400}
            /\ k.value = ChannelValue(SceneAtMark(k.frame).objects[k.obj], k.data_path)

\* C5 witness: both channels of a flexed part are recorded at mark 400 and
\* the rotation recorded there differs from the one recorded at mark 300.
C5_Witness ==
    /\ Finished
    /\ ValuesAt("gripper", "location", 400) # {}
    /\ ValuesAt("gripper", "rotation_euler", 400)
           # ValuesAt("gripper", "rotation_euler", 300)

\* C6: for every part and channel the marks of the keyframe insertions are
\* strictly increasing in insertion order.
C6_KeyframeMonotonicity ==
    \A i, j \in DOMAIN keyframes :
        (/\ i < j
         /\ keyframes[i].obj = keyframes[j].obj
         /\ keyframes[i].data_path = keyframes[j].data_path)
            => keyframes[i].frame < keyframes[j].frame

\* C6 witness: a part has five insertions on each channel.
C6_Witness ==
    /\ Cardinality(Recorded("plate", "location")) = 5
    /\ Cardinality(Recorded("plate", "rotation_euler")) = 5

RECURSIVE GeometryRoot(_)
GeometryRoot(name) ==
    IF \E i \in DOMAIN PartBlocks : PartBlocks[i].new = name
    THEN GeometryRoot(PartBlocks[CHOOSE i \in DOMAIN PartBlocks :
                                     PartBlocks[i].new = name].original)
    ELSE name

Pose(o) == <<o.location, o.rotation_euler, o.scale>>

RadiansEach(deg) == <<Radians(deg[1]), Radians(deg[2]), Radians(deg[3])>>

\* C9 as claimed: a part starts with the pose its template has when it is
\* duplicated, and the rotate_object call of its block adds the rest
\* rotation on top of the template's rotation.
C9_PoseFromTemplate ==
    pc = 1 =>
        \A i \in Duplicated :
            LET b == PartBlocks[i]
                n == globals[b.var]
            IN  (n # None /\ b.original \in DOMAIN objects) =>
                    IF i = ip
                    THEN Pose(objects[n]) = Pose(objects[b.original])
                    ELSE objects[n].rotation_euler =
                             Add3(objects[b.original].rotation_euler, RadiansEach(b.deg))

\* C9 amended: a part starts at the identity pose (location 0, rotation 0,
\* scale 1) whatever the pose of its template, so the rotate_object call of
\* its block leaves it with exactly the converted rest rotation.
C9_PoseFromIdentity ==
    pc = 1 =>
        \A i \in Duplicated :
            LET b == PartBlocks[i]
                n == globals[b.var]
            IN  n # None =>
                    IF i = ip
                    THEN Pose(objects[n]) = Pose(NewObject(0))
                    ELSE objects[n].rotation_euler = RadiansEach(b.deg)

\* C9 witness: rotor1 has just been duplicated from rotor, which is posed.
C9_Witness ==
    /\ pc = 1 /\ step = "pose"
    /\ PartBlocks[ip].var = "rotor1"
    /\ globals["rotor1"] = "rotor1"
    /\ objects["rotor"].rotation_euler # Zero3

\* The keyframes at the last mark have been recorded.
Terminal == err = "none" /\ pc >= AtEnd

\* The list of the eighteen parts, as importArmRobot builds it.
FullPartList == Refs(globals, armRobot_object_list)

\* This step inserts no keyframe and leaves the pose of every part as it is.
PartsUntouched ==
    /\ keyframes' = keyframes
    /\ \A v \in PartVars :
          /\ globals'[v] = globals[v]
          /\ globals[v] \in DOMAIN objects'
          /\ Pose(objects'[globals[v]]) = Pose(objects[globals[v]])

LastRecorded(n, transformation) ==
    LET is == Recorded(n, transformation)
    IN  keyframes[CHOOSE i \in is : \A j \in is : j <= i].value

\* A phase transition is under way or just over: every part has a keyframe
\* on both channels, and the run has not left gen_centerpiece.
InTransition ==
    /\ err = "none"
    /\ pc \in DOMAIN gen_centerpiece \cup {AtEnd}
    /\ \A v \in PartVars :
          /\ Recorded(globals[v], "location") # {}
          /\ Recorded(globals[v], "rotation_euler") # {}

\* The parts the current phase transition has translated, has rotated about
\* the global Z axis and has rotated about X so far: those whose value
\* differs from the one last recorded.
TranslatedParts ==
    {v \in PartVars :
        objects[globals[v]].location.at # LastRecorded(globals[v], "location").at}

ZRotatedParts ==
    {v \in PartVars :
        objects[globals[v]].rotation_euler[3]
            # LastRecorded(globals[v], "rotation_euler")[3]}

FlexedParts ==
    {v \in PartVars :
        objects[globals[v]].rotation_euler[1]
            # LastRecorded(globals[v], "rotation_euler")[1]}

Thrusters == {"thruster", "thruster1", "thruster2", "thruster3"}

\* Within a phase the translation comes first, then the Z rotation, then
\* the X flex: a part is seen Z-rotated only when all of translateList has
\* been translated, and a part is seen flexed only when moreover all of
\* rotationList has been Z-rotated.
PhaseOrder ==
    /\ ZRotatedParts # {} => TranslatedParts = Range(translateList)
    /\ FlexedParts # {} =>
          /\ TranslatedParts = Range(translateList)
          /\ ZRotatedParts = Range(rotationList)

\* C12 as claimed: in every phase transition the parts given the X flex are
\* among the parts rotated about Z, which are among the translated parts
\* (all 18); and the translation is applied first, then the Z rotation,
\* then the X flex.
C12_NestedTargets ==
    InTransition =>
        /\ FlexedParts \subseteq ZRotatedParts
        /\ ZRotatedParts \subseteq TranslatedParts
        /\ TranslatedParts \subseteq PartVars
        /\ PhaseOrder

\* C12 amended: in every phase transition the parts rotated about Z are
\* among the translated parts (all 18) and so are the parts given the X
\* flex, but the flexed parts are not all among the Z-rotated ones: the
\* four thrusters are flexed and never Z-rotated, and every other flexed
\* part is Z-rotated; the translation is applied first, then the Z
\* rotation, then the X flex.
C12_TargetsButThrusters ==
    InTransition =>
        /\ FlexedParts \ Thrusters \subseteq ZRotatedParts
        /\ ZRotatedParts \cap Thrusters = {}
        /\ Current.op = "insertKeyFrameForObjectTrans" /\ FlexedParts # {}
              => Thrusters \subseteq FlexedParts
        /\ ZRotatedParts \subseteq TranslatedParts
        /\ FlexedParts \subseteq TranslatedParts
        /\ TranslatedParts \subseteq PartVars
        /\ PhaseOrder

\* C12 witness: a phase transition is complete; all 18 parts are translated,
\* the 13 of rotationList are Z-rotated, and the flexed parts include the
\* thrusters and parts of rotationList.
C12_Witness ==
    /\ InTransition
    /\ Current = Insert("rotation_euler", 200)
    /\ TranslatedParts = PartVars
    /\ Cardinality(ZRotatedParts) = 13
    /\ Thrusters \subseteq FlexedParts
    /\ "gripper" \in FlexedParts \cap ZRotatedParts

Marks == {1, 100, 200, 300, 400}

Channels == {"location", "rotation_euler"}

\* The marks of the keyframes of object n on a channel.
MarksOf(n, transformation) ==
    {keyframes[i].frame : i \in Recorded(n, transformation)}

\* C13: when all seven templates exist, importArmRobot returns a list of 18
\* distinct parts; a mark recorded for one of them on a channel is recorded
\* for all of them (no part is skipped); and once gen_centerpiece has
\* finished every part has exactly one keyframe on the location channel and
\* on the rotation channel at each of the marks 1, 100, 200, 300, 400, and
\* there is no keyframe at another mark or on another object.
C13_KeyframeCompleteness ==
    (err = "none" /\ pc > 1) =>
        /\ Len(RobotArmObj) = 18
        /\ Cardinality(Range(RobotArmObj)) = 18
        /\ None \notin Range(RobotArmObj)
        /\ \A i \in DOMAIN keyframes :
              /\ keyframes[i].obj \in Range(RobotArmObj)
              /\ keyframes[i].data_path \in Channels
              /\ keyframes[i].frame \in Marks
        /\ \A c \in Channels : \A n, o \in Range(RobotArmObj) :
              MarksOf(n, c) = MarksOf(o, c)
        /\ Terminal =>
              \A c \in Channels : \A n \in Range(RobotArmObj) :
                  /\ MarksOf(n, c) = Marks
                  /\ Cardinality(Recorded(n, c)) = 5

\* C13 witness: gen_centerpiece has just finished with all seven templates;
\* the last part of the list has its keyframe at mark 400 on both channels.
C13_Witness ==
    /\ Finished
    /\ TemplateSet \cap DOMAIN objects = {}
    /\ RobotArmObj[18] = "thruster3"
    /\ 400 \in MarksOf("thruster3", "location") \cap MarksOf("thruster3", "rotation_euler")

\* The translation offsets of the four phases, and their sum up to mark m.
PhaseOffsets ==
    <<<<15000000, 0, 0>>, <<0, 10000000, 0>>, <<-15000000, 0, 0>>, <<0, -15000000, 0>>>>

RECURSIVE OffsetsUpTo(_)
OffsetsUpTo(k) == IF k = 0 THEN Zero3 ELSE Add3(OffsetsUpTo(k - 1), PhaseOffsets[k])

OffsetAtMark(m) == OffsetsUpTo(m \div 100)

\* C14: the plate is in no rotationList and in no flex list; its rotation
\* recorded at each of the marks 100, 200, 300, 400 equals its rotation
\* recorded at mark 1 (and it holds that rotation throughout the phases),
\* and its location recorded at a mark is its rest location moved by the
\* phase translation offsets up to that mark and by nothing else.
C14_FixedBase ==
    (err = "none" /\ pc > 1) =>
        LET p == globals["plate"]
            rest == PartBlocks[1]
        IN  /\ "plate" \notin Range(rotationList) \cup AllFlexParts
            /\ objects[p].rotation_euler = RadiansEach(rest.deg)
            /\ objects[p].location.swing = Zero3
            /\ \A m \in Marks :
                  /\ ValuesAt(p, "rotation_euler", m)
                         \subseteq ValuesAt(p, "rotation_euler", 1)
                  /\ ValuesAt(p, "location", m)
                         \subseteq {[at |-> Add3(rest.loc, OffsetAtMark(m)),
                                     swing |-> Zero3]}

\* C14 witness: the run is complete; the plate's rotation at mark 400 is the
\* one of mark 1 while its location is not, and a part of rotationList has a
\* different rotation at mark 200.
C14_Witness ==
    /\ Finished
    /\ ValuesAt("plate", "rotation_euler", 400) # {}
    /\ ValuesAt("plate", "rotation_euler", 400) = ValuesAt("plate", "rotation_euler", 1)
    /\ ValuesAt("plate", "location", 400) # ValuesAt("plate", "location", 1)
    /\ ValuesAt("rotor", "rotation_euler", 200) # ValuesAt("rotor", "rotation_euler", 1)

(***************************************************************************)
(* The operations called directly, in any order, on a scene holding two    *)
(* imported templates: every call is logged with its arguments, the scene  *)
(* it found and the value it returned.                                     *)
(***************************************************************************)
MaxCalls == 2

Handles == {None} \cup DOMAIN objects

\* Argument values, taken from the calls of importArmRobot and of the phase
\* transforms.
OriginalNames == {"ROTOR", "rotor", "NOPE"}
NewNames == {"rotor", "x"}
CollectionNames == {None, "Collection"}
Locations == {<<-67378, 1276270, 1143760>>}
Sizes == {<<-26674, -26674, -26674>>}
DegreeTriples ==
    {<<0, 0, 45000000>>, <<40158000, 0, 180000000>>, <<-137333000, 0, 0>>}
Offsets == {<<15000000, 0, 0>>}
ObjLists ==
    {<<o>> : o \in Handles} \cup {<<"ROTOR", o>> : o \in Handles \ {"ROTOR"}}

Call(op, obj, list, args, ret) ==
    [op |-> op, obj |-> obj, list |-> list, args |-> args, ret |-> ret, pre |-> World]

Calling == pc = 0 /\ err = "none" /\ Len(calls) < MaxCalls

InitCalls ==
    /\ LET w == ImportedScene({"ROTOR", "ANGLE"})
       IN  objects = w.objects /\ meshes = w.meshes
    /\ collections = {}
    /\ selected = {}
    /\ keyframes = <<>>
    /\ err = "none"
    /\ globals = [v \in PartVars |-> None]
    /\ RobotArmObj = <<>>
    /\ result = "pending"
    /\ pc = 0
    /\ ip = 1
    /\ step = "duplicate"
    /\ calls = <<>>

CallDuplicate ==
    /\ Calling
    /\ \E original_name \in OriginalNames, new_name \in NewNames,
          collection_name \in CollectionNames :
          LET r == duplicate_object(World, original_name, new_name, collection_name)
          IN  /\ Commit(r.w)
              /\ calls' = Append(calls,
                     Call("duplicate_object", None, <<>>,
                          <<original_name, new_name, collection_name>>, r.ret))
    /\ UNCHANGED <<globals, RobotArmObj, result, pc, ip, step>>

CallSetLocation ==
    /\ Calling
    /\ \E obj \in Handles, v \in Locations :
          /\ Commit(set_location(World, obj, v[1], v[2], v[3]))
          /\ calls' = Append(calls, Call("set_location", obj, <<>>, v, None))
    /\ UNCHANGED <<globals, RobotArmObj, result, pc, ip, step>>

CallResize ==
    /\ Calling
    /\ \E obj \in Handles, v \in Sizes :
          /\ Commit(resize_object(World, obj, v[1], v[2], v[3]))
          /\ calls' = Append(calls, Call("resize_object", obj, <<>>, v, None))
    /\ UNCHANGED <<globals, RobotArmObj, result, pc, ip, step>>

CallRotate ==
    /\ Calling
    /\ \E obj \in Handles, d \in DegreeTriples :
          /\ Commit(rotate_object(World, obj, d[1], d[2], d[3]))
          /\ calls' = Append(calls, Call("rotate_object", obj, <<>>, d, None))
    /\ UNCHANGED <<globals, RobotArmObj, result, pc, ip, step>>

CallTranslate ==
    /\ Calling
    /\ \E obj \in Handles, t \in Offsets :
          /\ Commit(translate_object(World, obj, t[1], t[2], t[3]))
          /\ calls' = Append(calls, Call("translate_object", obj, <<>>, t, None))
    /\ UNCHANGED <<globals, RobotArmObj, result, pc, ip, step>>

CallRotateOnSelect ==
    /\ Calling
    /\ \E objList \in ObjLists :
          /\ Commit(rotateObjectOnSelect(World, objList, 11000000, "Z"))
          /\ calls' = Append(calls,
                 Call("rotateObjectOnSelect", None, objList, <<11000000>>, None))
    /\ UNCHANGED <<globals, RobotArmObj, result, pc, ip, step>>

CallRotateOnXAxis ==
    /\ Calling
    /\ \E obj_name \in {"ROTOR", "rotor", "NOPE"} :
          /\ Commit(rotate_object_on_x_axis(World, obj_name, -FlexAngle))
          /\ calls' = Append(calls,
                 Call("rotate_object_on_x_axis", None, <<>>, <<obj_name>>, None))
    /\ UNCHANGED <<globals, RobotArmObj, result, pc, ip, step>>

CallInsertKeyFrames ==
    /\ Calling
    /\ \E objList \in ObjLists, transformation \in {"location", "rotation_euler"} :
          /\ Commit(insertKeyFrameForObjectTrans(World, objList, transformation, 1))
          /\ calls' = Append(calls,
                 Call("insertKeyFrameForObjectTrans", None, objList,
                      <<transformation>>, None))
    /\ UNCHANGED <<globals, RobotArmObj, result, pc, ip, step>>

NextCalls ==
    \/ CallDuplicate
    \/ CallSetLocation
    \/ CallResize
    \/ CallRotate
    \/ CallTranslate
    \/ CallRotateOnSelect
    \/ CallRotateOnXAxis
    \/ CallInsertKeyFrames

SpecCalls == InitCalls /\ [][NextCalls]_vars

\* The scene call i left behind.
Post(i) == IF i < Len(calls) THEN calls[i + 1].pre ELSE World

(***************************************************************************)
(* Properties of the operations called directly.                           *)
(***************************************************************************)
\* A call of a transform primitive that was handed a null part reference.
NullCall(c) ==
    \/ c.op \in {"set_location", "resize_object", "rotate_object", "translate_object"}
          /\ c.obj = None
    \/ c.op = "rotateObjectOnSelect" /\ None \in Range(c.list)

\* C4: a transform primitive called with a null part reference raises no
\* error and leaves every part's pose and every keyframe unchanged.
C4_NullTolerance ==
    \A i \in DOMAIN calls :
        NullCall(calls[i]) =>
            /\ Post(i).err = "none"
            /\ Post(i).objects = calls[i].pre.objects
            /\ Post(i).keyframes = calls[i].pre.keyframes

Succeeded(i) == calls[i].ret # None /\ Post(i).err = "none"

\* C7: duplicate_object of a name with no live object returns None and
\* changes nothing; a successful call leaves every earlier object as it was
\* (pose, name, containers, shape data) and adds exactly one object, linked
\* to the named container, which is created only when absent, or, when no
\* container is named, to the first container of the template.
C7_DuplicateFrame ==
    \A i \in DOMAIN calls :
        calls[i].op = "duplicate_object" =>
            LET pre == calls[i].pre
                post == Post(i)
                original_name == calls[i].args[1]
                collection_name == calls[i].args[3]
                new == calls[i].ret
            IN  /\ original_name \notin DOMAIN pre.objects
                      => new = None /\ post = pre
                /\ Succeeded(i) =>
                      /\ original_name \in DOMAIN pre.objects
                      /\ new \notin DOMAIN pre.objects
                      /\ DOMAIN post.objects = DOMAIN pre.objects \cup {new}
                      /\ \A n \in DOMAIN pre.objects : post.objects[n] = pre.objects[n]
                      /\ post.keyframes = pre.keyframes
                      /\ IF Truthy(collection_name)
                         THEN /\ post.objects[new].users_collection = <<collection_name>>
                              /\ post.collections = pre.collections \cup {collection_name}
                         ELSE /\ post.objects[new].users_collection =
                                     <<pre.objects[original_name].users_collection[1]>>
                              /\ post.collections = pre.collections

\* C7 witness: two successful calls in a row; the second found its container
\* already made by the first, and its object took a suffixed name because
\* the name asked for was taken.
C7_Witness ==
    \E i, j \in DOMAIN calls :
        /\ calls[i].op = "duplicate_object" /\ calls[j].op = "duplicate_object"
        /\ i < j
        /\ Succeeded(i) /\ Succeeded(j)
        /\ calls[j].args[3] = "Collection"
        /\ "Collection" \in calls[j].pre.collections
        /\ calls[j].ret # calls[j].args[2]

\* Two consecutive rotate_object calls on the same object.
RotatedTwice(i) ==
    /\ i + 1 \in DOMAIN calls
    /\ calls[i].op = "rotate_object" /\ calls[i + 1].op = "rotate_object"
    /\ calls[i].obj # None /\ calls[i].obj = calls[i + 1].obj

\* The rotation one call rotate_object(obj, a + b) gives obj in the scene
\* the first of the two calls found.
RotatedOnce(i) ==
    LET ab == Add3(calls[i].args, calls[i + 1].args)
    IN  rotate_object(calls[i].pre, calls[i].obj, ab[1], ab[2], ab[3])
            .objects[calls[i].obj].rotation_euler

Within1(x, y) == x - y \in {-1, 0, 1}

====
